---- MODULE Spec2Model ----
(***************************************************************************)
(* gevent/lock.py: PySemaphore, DummySemaphore, BoundedSemaphore and RLock *)
(* as a state machine of cooperatively scheduled greenlets.  One greenlet  *)
(* runs at a time (current); the hub runs timers, thrown exceptions and    *)
(* the semaphore's notifier callback (_notify_links), which calls the      *)
(* registered links: it switches into the blocked greenlets and gets       *)
(* control back when they switch to the hub, and it calls the other        *)
(* callbacks registered with rawlink, which run in the hub and return.     *)
(***************************************************************************)
EXTENDS Integers, Sequences, FiniteSets, TLC

\* ---------------------------------------------------------------- bounds
\* greenlets that use the semaphore
NumTasks == 3
\* largest initial value of a semaphore
MaxValue == 2
\* release() is not called with the counter at MaxCounter
MaxCounter == 2
\* the owner does not re-acquire the RLock beyond depth MaxDepth
MaxDepth == 2
\* greenlets that use the RLock (at most NumTasks)
NumLockers == 2
\* callbacks other than a greenlet's switch that get registered with rawlink
NumCallbacks == 2
\* greenlets that use a semaphore on which such callbacks are registered
NumLinkers == 2
\* one execution of _notify_links is followed for MaxCalls calls of callbacks
MaxCalls == 3

\* ------------------------------------------------------------- constants
Hub == 0
None == -1
Tasks == 1..NumTasks
\* the greenlets that use the RLock
Lockers == 1..NumLockers
\* the callables passed to rawlink() that are not a greenlet's switch
Callbacks == (NumTasks + 1)..(NumTasks + NumCallbacks)
\* the greenlets that use the semaphore together with such callbacks
Linkers == 1..NumLinkers
Blocked == {"acquire", "wait", "rl_acquire", "rl_restore"}
\* the greenlet holds no tuple of _release_save (which may return (0, None))
NoSave == <<None, None>>

VARIABLES
    cls,              \* class of the semaphore object
    initial_value,    \* BoundedSemaphore._initial_value
    counter,          \* PySemaphore.counter
    links,            \* PySemaphore._links: greenlets whose switch is registered
    dirty,            \* PySemaphore._dirty
    notifier_active,  \* PySemaphore._notifier.active
    npc,              \* where _notify_links stands: "idle", "loop", "called"
    idx,              \* position of the list iterator of `for link in self._links`
    pc,               \* per greenlet: "out", or the call it is suspended in
    timer,            \* per greenlet: its Timeout of the suspended call is armed
    current,          \* the running greenlet (getcurrent()), or Hub
    last,             \* the call that returned last: greenlet, operation, result
    owner,            \* RLock._owner
    count,            \* RLock._count
    saved,            \* per greenlet: the (count, owner) it got from _release_save
    drain             \* the running execution of _notify_links: counter at entry,
                      \* links called so far, links removed, release() seen

vars == <<cls, initial_value, counter, links, dirty, notifier_active, npc, idx,
          pc, timer, current, last, owner, count, saved, drain>>

semvars == <<counter, links, dirty, notifier_active>>
rlvars == <<owner, count, saved>>

\* ------------------------------------------------- PySemaphore's helpers
\* no execution of _notify_links is under way
NoDrain == [start |-> 0, woken |-> <<>>, unlinked |-> {}, released |-> FALSE]

\* link(self) is called for link, registered by `call`; it removes `gone`
Invoked(d, link, call, gone) ==
    [d EXCEPT !.woken = Append(@, <<link, call>>), !.unlinked = @ \cup gone]

\* a callback is removed from _links while _notify_links is under way
note_unlink(d, n, l, cb) ==
    IF n # "idle" /\ \E i \in 1..Len(l) : l[i] = cb
    THEN [d EXCEPT !.unlinked = @ \cup {cb}]
    ELSE d

\* release() is called while _notify_links is under way
note_release(d, n) == IF n # "idle" THEN [d EXCEPT !.released = TRUE] ELSE d

\* via: "call" (no suspension), "switch" (hub.switch() returned), "throw" (raised in it)
\* "link" (a callback called by _notify_links), "stale" (a switch or throw that
\* finds the greenlet outside the call)
Returned(t, op, val, via) == [task |-> t, op |-> op, val |-> val, via |-> via]

\* list.remove(x): drops the first occurrence; the list unchanged when absent
RECURSIVE ListRemove(_, _)
ListRemove(s, e) ==
    IF s = <<>> THEN <<>>
    ELSE IF Head(s) = e THEN Tail(s)
    ELSE <<Head(s)>> \o ListRemove(Tail(s), e)

InList(s, e) == \E i \in 1..Len(s) : s[i] = e

\* rawlink: self._links.append(callback)
rawlink(l, cb) == Append(l, cb)

\* a bug: unlink leaves the callback registered
unlink_keeps(l, cb) == l

\* unlink: self._links.remove(callback), ValueError swallowed
unlink(l, cb) == ListRemove(l, cb)

\* unlink sets _dirty only when the callback was found
unlink_dirty(l, cb, d) == IF InList(l, cb) THEN TRUE ELSE d

\* a bug: the Timeout is left armed
cancel_skipped(tm, t) == tm

\* `finally: timer.cancel()`
cancel(tm, t) == [tm EXCEPT ![t] = FALSE]

\* a bug: _acquire_restore sets the depth as acquire() does
restore_count_one(co) == 1

\* _acquire_restore: `count, owner = count_owner`, `self._count = count`
restore_count(co) == co[1]

\* a bug: _acquire_restore does not set the owner
restore_owner_none(co) == None

\* _acquire_restore: `self._owner = owner`
restore_owner(co) == co[2]

\* a bug: release() never schedules the notifier
start_notify_never(l, c, a) == a

\* a bug: the notifier is scheduled only from counter 2 on
start_notify_late(l, c, a) == IF Len(l) > 0 /\ c > 1 /\ ~a THEN TRUE ELSE a

\* _start_notify: the new value of _notifier.active
start_notify(l, c, a) == IF Len(l) > 0 /\ c > 0 /\ ~a THEN TRUE ELSE a

\* ------------------------------------------------------------------ Init
\* __init__ does not set _dirty: rawlink, unlink and _notify_links write it
\* before _notify_links, its only reader, reads it
InitCommon ==
    /\ links = <<>>
    /\ dirty = FALSE
    /\ notifier_active = FALSE
    /\ npc = "idle"
    /\ idx = 0
    /\ pc = [t \in Tasks |-> "out"]
    /\ timer = [t \in Tasks |-> FALSE]
    /\ current = Hub
    /\ last = Returned(Hub, "init", "None", "call")
    /\ owner = None
    /\ count = 0
    /\ saved = [t \in Tasks |-> NoSave]
    /\ drain = NoDrain

\* Semaphore(value), value >= 0
Init ==
    /\ cls = "Semaphore"
    /\ counter \in 0..MaxValue
    /\ initial_value = None
    /\ InitCommon

\* BoundedSemaphore(value), value >= 0
BoundedInit ==
    /\ cls = "BoundedSemaphore"
    /\ counter \in 0..MaxValue
    /\ initial_value = counter
    /\ InitCommon

\* ----------------------------------------------------- scheduling (hub)
\* the hub switches into a greenlet that is not suspended in this object
RunTask(t) ==
    /\ current = Hub
    /\ npc = "idle"
    /\ pc[t] = "out"
    /\ current' = t
    /\ UNCHANGED <<cls, initial_value, drain, semvars, npc, idx, pc, timer, last, rlvars>>

\* the running greenlet switches to the hub outside this object (sleep, exit)
Yield(t) ==
    /\ current = t
    /\ current' = Hub
    /\ UNCHANGED <<cls, initial_value, drain, semvars, npc, idx, pc, timer, last, rlvars>>


\* ------------------------------------------------ PySemaphore operations
\* rawlink(switch); Timeout.start_new(timeout); self.hub.switch()
Suspend(t, call, timeout) ==
    /\ links' = rawlink(links, t)
    /\ dirty' = TRUE
    /\ timer' = [timer EXCEPT ![t] = timeout]
    /\ pc' = [pc EXCEPT ![t] = call]
    /\ current' = Hub
    /\ UNCHANGED <<counter, notifier_active>>

\* a bug: acquire() takes the semaphore at counter 0 as well
Acquire_at_zero(t, blocking, timeout) ==
    /\ current = t
    /\ IF counter >= 0
       THEN /\ counter' = counter - 1
            /\ last' = Returned(t, "acquire", "True", "call")
            /\ UNCHANGED <<links, dirty, notifier_active, pc, timer, current>>
       ELSE IF ~blocking
       THEN /\ last' = Returned(t, "acquire", "False", "call")
            /\ UNCHANGED <<semvars, pc, timer, current>>
       ELSE /\ Suspend(t, "acquire", timeout)
            /\ UNCHANGED last
    /\ UNCHANGED <<cls, initial_value, drain, npc, idx, rlvars>>

\* acquire(blocking, timeout); timeout is TRUE for a duration, FALSE for None
Acquire(t, blocking, timeout) ==
    /\ current = t
    /\ IF counter > 0
       THEN /\ counter' = counter - 1
            /\ last' = Returned(t, "acquire", "True", "call")
            /\ UNCHANGED <<links, dirty, notifier_active, pc, timer, current>>
       ELSE IF ~blocking
       THEN /\ last' = Returned(t, "acquire", "False", "call")
            /\ UNCHANGED <<semvars, pc, timer, current>>
       ELSE /\ Suspend(t, "acquire", timeout)
            /\ UNCHANGED last
    /\ UNCHANGED <<cls, initial_value, drain, npc, idx, rlvars>>

\* a bug: wait() suspends without looking at the counter
Wait_always_suspends(t, timeout) ==
    /\ current = t
    /\ Suspend(t, "wait", timeout)
    /\ UNCHANGED last
    /\ UNCHANGED <<cls, initial_value, drain, npc, idx, rlvars>>

\* wait(timeout)
Wait(t, timeout) ==
    /\ current = t
    /\ IF counter > 0
       THEN /\ last' = Returned(t, "wait", ToString(counter), "call")
            /\ UNCHANGED <<semvars, pc, timer, current>>
       ELSE /\ Suspend(t, "wait", timeout)
            /\ UNCHANGED last
    /\ UNCHANGED <<cls, initial_value, drain, npc, idx, rlvars>>

\* rawlink(callback) called by a greenlet; None stands for an object that is
\* not callable.  A callback is registered at most once at a time.
Rawlink(t, cb) ==
    /\ current = t
    /\ IF cb = None
       THEN /\ last' = Returned(t, "rawlink", "TypeError", "call")
            /\ UNCHANGED <<links, dirty>>
       ELSE /\ ~InList(links, cb)
            /\ links' = rawlink(links, cb)
            /\ dirty' = TRUE
            /\ last' = Returned(t, "rawlink", "None", "call")
    /\ UNCHANGED <<cls, initial_value, counter, notifier_active, npc, idx, pc,
                   timer, current, rlvars, drain>>

\* unlink(callback) called by a greenlet
Unlink(t, cb) ==
    /\ current = t
    /\ links' = unlink(links, cb)
    /\ dirty' = unlink_dirty(links, cb, dirty)
    /\ drain' = note_unlink(drain, npc, links, cb)
    /\ last' = Returned(t, "unlink", "None", "call")
    /\ UNCHANGED <<cls, initial_value, counter, notifier_active, npc, idx, pc,
                   timer, current, rlvars>>

\* PySemaphore.release: counter += 1; _start_notify()
sem_release ==
    /\ counter' = counter + 1
    /\ notifier_active' = start_notify(links, counter + 1, notifier_active)
    /\ drain' = note_release(drain, npc)
    /\ UNCHANGED <<links, dirty>>

\* a bug: the bound is tested with > instead of >=
over_released_late(c, iv) == c > iv

\* BoundedSemaphore.release's test
over_released(c, iv) == c >= iv

\* a bug: release() switches into the first waiter itself
Release_sync(t) ==
    /\ current = t
    /\ counter < MaxCounter
    /\ IF links # <<>> /\ pc[Head(links)] \in Blocked
       THEN /\ counter' = IF pc[Head(links)] = "wait" THEN counter + 1 ELSE counter
            /\ links' = Tail(links)
            /\ dirty' = TRUE
            /\ pc' = [pc EXCEPT ![Head(links)] = "out"]
            /\ timer' = cancel(timer, Head(links))
            /\ current' = Head(links)
            /\ last' = Returned(Head(links), pc[Head(links)], "True", "switch")
            /\ UNCHANGED <<notifier_active, drain>>
       ELSE /\ sem_release
            /\ last' = Returned(t, "release", "None", "call")
            /\ UNCHANGED <<pc, timer, current>>
    /\ UNCHANGED <<cls, initial_value, npc, idx, rlvars>>

\* release() of the object's class
Release(t) ==
    /\ current = t
    /\ IF cls = "BoundedSemaphore" /\ over_released(counter, initial_value)
       THEN /\ last' = Returned(t, "release", "ValueError", "call")
            /\ UNCHANGED <<semvars, drain>>
       ELSE /\ counter < MaxCounter
            /\ sem_release
            /\ last' = Returned(t, "release", "None", "call")
    /\ UNCHANGED <<cls, initial_value, npc, idx, pc, timer, current, rlvars>>

\* ------------------------------------ a suspended call getting control back
\* hub.switch() returned self: finally timer.cancel(), finally unlink(switch),
\* then the rest of the call; the greenlet goes on running
Resumed(t) ==
    /\ timer' = cancel(timer, t)
    /\ links' = unlink(links, t)
    /\ dirty' = unlink_dirty(links, t, dirty)
    /\ pc' = [pc EXCEPT ![t] = "out"]
    /\ current' = t
    /\ UNCHANGED notifier_active
    /\ CASE pc[t] = "acquire" ->
              /\ counter' = counter - 1
              /\ last' = Returned(t, "acquire",
                                  IF counter - 1 >= 0 THEN "True" ELSE "AssertionError", "switch")
              /\ UNCHANGED rlvars
         [] pc[t] = "wait" ->
              /\ last' = Returned(t, "wait", ToString(counter), "switch")
              /\ UNCHANGED <<counter, rlvars>>
         [] pc[t] = "rl_acquire" ->
              /\ counter' = counter - 1
              /\ IF counter - 1 >= 0
                 THEN /\ owner' = t
                      /\ count' = 1
                      /\ last' = Returned(t, "rl_acquire", "True", "switch")
                 ELSE /\ last' = Returned(t, "rl_acquire", "AssertionError", "switch")
                      /\ UNCHANGED <<owner, count>>
              /\ UNCHANGED saved
         [] pc[t] = "rl_restore" ->
              /\ counter' = counter - 1
              /\ IF counter - 1 >= 0
                 THEN /\ count' = restore_count(saved[t])
                      /\ owner' = restore_owner(saved[t])
                      /\ last' = Returned(t, "rl_restore", "None", "switch")
                 ELSE /\ last' = Returned(t, "rl_restore", "AssertionError", "switch")
                      /\ UNCHANGED <<owner, count>>
              /\ saved' = [saved EXCEPT ![t] = NoSave]

\* an exception thrown into hub.switch(): the call's own Timeout (own) or
\* anything else; finally timer.cancel(), finally unlink(switch)
Thrown(t, own) ==
    /\ timer' = cancel(timer, t)
    /\ links' = unlink(links, t)
    /\ dirty' = unlink_dirty(links, t, dirty)
    /\ pc' = [pc EXCEPT ![t] = "out"]
    /\ current' = t
    /\ UNCHANGED <<counter, notifier_active, owner, count>>
    /\ saved' = [saved EXCEPT ![t] = NoSave]
    /\ last' = Returned(t, pc[t],
                 IF own /\ pc[t] = "acquire" THEN "False"
                 ELSE IF own /\ pc[t] = "wait" THEN ToString(counter)
                 ELSE "raised", "throw")

\* a switch or a throw reaching a greenlet that is not suspended in this object
Stale(t, what) ==
    /\ current' = t
    /\ timer' = [timer EXCEPT ![t] = FALSE]
    /\ last' = Returned(t, "stale", what, "stale")
    /\ UNCHANGED <<semvars, pc, rlvars>>

\* the hub's loop fires the Timeout armed by t's call: throws it into t
TimerFire(t) ==
    /\ current = Hub
    /\ npc = "idle"
    /\ timer[t]
    /\ IF pc[t] \in Blocked THEN Thrown(t, TRUE) ELSE Stale(t, "Timeout")
    /\ UNCHANGED <<cls, initial_value, drain, npc, idx>>

\* the hub throws a foreign exception (kill, another Timeout) into t
Throw(t) ==
    /\ current = Hub
    /\ npc = "idle"
    /\ pc[t] \in Blocked
    /\ Thrown(t, FALSE)
    /\ UNCHANGED <<cls, initial_value, drain, npc, idx>>

\* --------------------------------------------------------- _notify_links
\* a bug: the drain does not look at the counter
drain_never_stops(c) == FALSE

\* a bug: the notifier goes on at counter 0
drain_stops_below_zero(c) == c < 0

\* `if self.counter <= 0: return`
drain_stops(c) == c <= 0

\* a bug: the list is gone through from its end
next_link_from_end(l, i) == l[Len(l) - i]

\* `for link in self._links`: the element the list iterator at position i yields
next_link(l, i) == l[i + 1]

\* link(self) for a callback that is not a greenlet's switch: it runs in the
\* hub and returns (an exception it raises goes to hub.handle_error); it may
\* call rawlink(d) or unlink(d) of this semaphore
CallbackRuns(c, what, d) ==
    /\ CASE what \in {"pass", "raise"} ->
              /\ UNCHANGED <<links, dirty>>
              /\ drain' = Invoked(drain, c, "callback", {})
         [] what = "rawlink" ->
              /\ ~InList(links, d)
              /\ links' = rawlink(links, d)
              /\ dirty' = TRUE
              /\ drain' = Invoked(drain, c, "callback", {})
         [] what = "unlink" ->
              /\ links' = unlink(links, d)
              /\ dirty' = unlink_dirty(links, d, dirty)
              /\ drain' = Invoked(drain, c, "callback",
                                  IF InList(links, d) THEN {d} ELSE {})
    /\ last' = Returned(c, "callback", what, "link")
    /\ UNCHANGED <<counter, notifier_active, pc, timer, current, rlvars>>

\* link(self): a greenlet's switch, or another callable
Invoke(t) ==
    IF t \in Callbacks
    THEN /\ Len(drain.woken) < MaxCalls
         /\ \E what \in {"pass", "raise", "rawlink", "unlink"}, d \in Callbacks :
                CallbackRuns(t, what, d)
    ELSE IF pc[t] \in Blocked
    THEN Resumed(t) /\ drain' = Invoked(drain, t, pc[t], {t})
    ELSE Stale(t, "switch") /\ drain' = Invoked(drain, t, "stale", {})

\* the loop's callback watcher stops being active (pending) when the loop
\* calls its callback, as a libev watcher's pending state does
callback_called(a) == FALSE

\* the hub runs the notifier callback: enters `while True: self._dirty = False`
NotifyStart ==
    /\ current = Hub
    /\ npc = "idle"
    /\ notifier_active
    /\ notifier_active' = callback_called(notifier_active)
    /\ dirty' = FALSE
    /\ idx' = 0
    /\ npc' = "loop"
    /\ drain' = [start |-> counter, woken |-> <<>>, unlinked |-> {}, released |-> FALSE]
    /\ UNCHANGED <<cls, initial_value, counter, links, pc, timer, current, last, rlvars>>

\* one step of `for link in self._links`, up to the switch into link
NotifyIter ==
    /\ current = Hub
    /\ npc = "loop"
    /\ IF idx >= Len(links)
       THEN /\ IF ~dirty
               THEN npc' = "idle" /\ drain' = NoDrain /\ UNCHANGED <<dirty, idx>>
               ELSE npc' = "loop" /\ dirty' = FALSE /\ idx' = 0 /\ UNCHANGED drain
            /\ UNCHANGED <<counter, links, notifier_active, pc, timer, current, last, rlvars>>
       ELSE IF drain_stops(counter)
       THEN /\ npc' = "idle"
            /\ drain' = NoDrain
            /\ UNCHANGED <<semvars, idx, pc, timer, current, last, rlvars>>
       ELSE /\ idx' = idx + 1
            /\ npc' = "called"
            /\ Invoke(next_link(links, idx))
    /\ UNCHANGED <<cls, initial_value>>

\* a bug: _notify_links returns after the first link it called
NotifyResume_returns ==
    /\ current = Hub
    /\ npc = "called"
    /\ npc' = "idle"
    /\ drain' = NoDrain
    /\ UNCHANGED <<cls, initial_value, semvars, idx, pc, timer, current, last, rlvars>>

\* link(self) returned to the hub: `if self._dirty: break`, `if not self._dirty: return`
NotifyResume ==
    /\ current = Hub
    /\ npc = "called"
    /\ IF dirty
       THEN dirty' = FALSE /\ idx' = 0
       ELSE UNCHANGED <<dirty, idx>>
    /\ npc' = "loop"
    /\ UNCHANGED <<cls, initial_value, drain, counter, links, notifier_active, pc, timer, current, last, rlvars>>

\* ------------------------------------------------------------------ RLock
\* a bug: release() does not test the owner
is_owned_unchecked(t) == TRUE

\* a bug: "the lock is owned" taken for "the lock is mine"
is_owned_by_any(t) == owner # None

\* `self._owner is me` / `self._owner is getcurrent()`
is_owned(t) == owner = t

\* a bug: every release() releases _block
fully_released_always(c) == TRUE

\* `if not count` after the decrement
fully_released(c) == c = 0

\* RLock.acquire(blocking): the inner acquire has no timeout
RLAcquire(t, blocking) ==
    /\ current = t
    /\ IF is_owned(t)
       THEN /\ count < MaxDepth
            /\ count' = count + 1
            /\ last' = Returned(t, "rl_acquire", "True", "call")
            /\ UNCHANGED <<semvars, pc, timer, current, owner>>
       ELSE IF counter > 0
       THEN /\ counter' = counter - 1
            /\ owner' = t
            /\ count' = 1
            /\ last' = Returned(t, "rl_acquire", "True", "call")
            /\ UNCHANGED <<links, dirty, notifier_active, pc, timer, current>>
       ELSE IF ~blocking
       THEN /\ last' = Returned(t, "rl_acquire", "False", "call")
            /\ UNCHANGED <<semvars, pc, timer, current, owner, count>>
       ELSE /\ Suspend(t, "rl_acquire", FALSE)
            /\ UNCHANGED <<last, owner, count>>
    /\ UNCHANGED <<cls, initial_value, drain, npc, idx, saved>>

\* RLock.release()
RLRelease(t) ==
    /\ current = t
    /\ IF ~is_owned(t)
       THEN /\ last' = Returned(t, "rl_release", "RuntimeError", "call")
            /\ UNCHANGED <<semvars, drain, owner, count>>
       ELSE /\ count' = count - 1
            /\ last' = Returned(t, "rl_release", "None", "call")
            /\ IF fully_released(count - 1)
               THEN owner' = None /\ sem_release
               ELSE UNCHANGED <<owner, semvars, drain>>
    /\ UNCHANGED <<cls, initial_value, npc, idx, pc, timer, current, saved>>

\* RLock._release_save(), called by the lock's owner (Condition.wait)
RLSave(t) ==
    /\ current = t
    /\ is_owned(t)
    /\ saved[t] = NoSave
    /\ saved' = [saved EXCEPT ![t] = <<count, owner>>]
    /\ count' = 0
    /\ owner' = None
    /\ sem_release
    /\ last' = Returned(t, "rl_save", "tuple", "call")
    /\ UNCHANGED <<cls, initial_value, npc, idx, pc, timer, current>>

\* RLock._release_save() called by a greenlet that does not own the lock: the
\* method does not test the owner.  Such a call is followed while no greenlet
\* holds a tuple of an earlier _release_save.
RLSaveUnowned(t) ==
    /\ current = t
    /\ ~is_owned(t)
    /\ \A u \in Lockers : saved[u] = NoSave
    /\ counter < MaxCounter
    /\ saved' = [saved EXCEPT ![t] = <<count, owner>>]
    /\ count' = 0
    /\ owner' = None
    /\ sem_release
    /\ last' = Returned(t, "rl_save", "tuple", "call")
    /\ UNCHANGED <<cls, initial_value, npc, idx, pc, timer, current>>

\* RLock._acquire_restore(count_owner) with the tuple _release_save returned
RLRestore(t) ==
    /\ current = t
    /\ saved[t] # NoSave
    /\ IF counter > 0
       THEN /\ counter' = counter - 1
            /\ count' = restore_count(saved[t])
            /\ owner' = restore_owner(saved[t])
            /\ saved' = [saved EXCEPT ![t] = NoSave]
            /\ last' = Returned(t, "rl_restore", "None", "call")
            /\ UNCHANGED <<links, dirty, notifier_active, pc, timer, current>>
       ELSE /\ Suspend(t, "rl_restore", FALSE)
            /\ UNCHANGED <<last, rlvars>>
    /\ UNCHANGED <<cls, initial_value, drain, npc, idx>>

\* RLock(): _block = Semaphore(1), _owner = None, _count = 0
RLInit ==
    /\ cls = "Semaphore"
    /\ counter = 1
    /\ initial_value = None
    /\ InitCommon

RLNext ==
    \/ \E t \in Lockers : RunTask(t)
    \/ \E t \in Lockers : Yield(t)
    \/ \E t \in Lockers, blocking \in BOOLEAN : RLAcquire(t, blocking)
    \/ \E t \in Lockers : RLRelease(t)
    \/ \E t \in Lockers : RLSave(t)
    \/ \E t \in Lockers : RLRestore(t)
    \/ \E t \in Lockers : Throw(t)
    \/ NotifyStart
    \/ NotifyIter
    \/ NotifyResume

RLSpec == RLInit /\ [][RLNext]_vars

\* the RLock used without Condition's protocol: any greenlet calls _release_save
RLAnyNext ==
    \/ RLNext
    \/ \E t \in Lockers : RLSaveUnowned(t)

RLAnySpec == RLInit /\ [][RLAnyNext]_vars

\* The hub runs a scheduled callback within one iteration of its loop and, once
\* in _notify_links, goes on with it; a running greenlet switches to the hub
\* sooner or later (cooperative scheduling).
RLFairness ==
    /\ SF_vars(NotifyStart)
    /\ WF_vars(NotifyIter)
    /\ WF_vars(NotifyResume)
    /\ \A t \in Lockers : WF_vars(Yield(t))

RLLiveSpec == RLInit /\ [][RLNext]_vars /\ RLFairness

\* ------------------------------------------------------------------ Spec
Next ==
    \/ \E t \in Tasks : RunTask(t)
    \/ \E t \in Tasks : Yield(t)
    \/ \E t \in Tasks, blocking \in BOOLEAN, timeout \in BOOLEAN : Acquire(t, blocking, timeout)
    \/ \E t \in Tasks, timeout \in BOOLEAN : Wait(t, timeout)
    \/ \E t \in Tasks : Release(t)
    \/ \E t \in Tasks : TimerFire(t)
    \/ \E t \in Tasks : Throw(t)
    \/ NotifyStart
    \/ NotifyIter
    \/ NotifyResume

Spec == Init /\ [][Next]_vars

BoundedSpec == BoundedInit /\ [][Next]_vars

\* Once in _notify_links the hub goes on with it, and a greenlet it switched
\* into switches back to the hub sooner or later, by suspending or otherwise.
Fairness ==
    /\ WF_vars(NotifyIter)
    /\ WF_vars(NotifyResume)
    /\ \A t \in Tasks : WF_vars(Yield(t))

LiveSpec == Init /\ [][Next]_vars /\ Fairness

\* a Semaphore whose links hold greenlets' switches and other callbacks
CbNext ==
    \/ \E t \in Linkers : RunTask(t)
    \/ \E t \in Linkers : Yield(t)
    \/ \E t \in Linkers, blocking \in BOOLEAN, timeout \in BOOLEAN : Acquire(t, blocking, timeout)
    \/ \E t \in Linkers, timeout \in BOOLEAN : Wait(t, timeout)
    \/ \E t \in Linkers : Release(t)
    \/ \E t \in Linkers, cb \in Callbacks \cup {None} : Rawlink(t, cb)
    \/ \E t \in Linkers, cb \in Callbacks : Unlink(t, cb)
    \/ \E t \in Linkers : TimerFire(t)
    \/ \E t \in Linkers : Throw(t)
    \/ NotifyStart
    \/ NotifyIter
    \/ NotifyResume

CbSpec == Init /\ [][CbNext]_vars

\* The hub runs a scheduled callback within one iteration of its loop and, once
\* in _notify_links, goes on with it; a running greenlet switches to the hub
\* sooner or later.  Nothing makes a greenlet call the semaphore again.
CbFairness ==
    /\ SF_vars(NotifyStart)
    /\ WF_vars(NotifyIter)
    /\ WF_vars(NotifyResume)
    /\ \A t \in Linkers : WF_vars(Yield(t))

CbLiveSpec == Init /\ [][CbNext]_vars /\ CbFairness

\* a new Semaphore(value) on which nothing but acquire() is called
FreshNext ==
    \/ \E t \in Tasks : RunTask(t)
    \/ \E t \in Tasks : Yield(t)
    \/ \E t \in Tasks, blocking \in BOOLEAN, timeout \in BOOLEAN : Acquire(t, blocking, timeout)
    \/ \E t \in Tasks : TimerFire(t)

FreshSpec == Init /\ [][FreshNext]_vars

\* --------------------------------------------------------- DummySemaphore
\* every method of DummySemaphore but locked() is `pass` under a docstring:
\* the call returns None; locked() returns False.  The object has no state.
DummyCall(t, op, val) ==
    /\ cls = "DummySemaphore"
    /\ current = t
    /\ last' = Returned(t, op, val, "call")
    /\ UNCHANGED <<cls, initial_value, drain, semvars, npc, idx, pc, timer, current, rlvars>>

DummyLocked(t) == DummyCall(t, "locked", "False")

DummyRelease(t) == DummyCall(t, "release", "None")

DummyRawlink(t) == DummyCall(t, "rawlink", "None")

DummyUnlink(t) == DummyCall(t, "unlink", "None")

DummyWait(t, timeout) == DummyCall(t, "wait", "None")

DummyAcquire(t, blocking, timeout) == DummyCall(t, "acquire", "None")

DummyEnter(t) == DummyCall(t, "__enter__", "None")

DummyExit(t) == DummyCall(t, "__exit__", "None")

\* DummySemaphore(): no __init__, no attributes
DummyInit ==
    /\ cls = "DummySemaphore"
    /\ counter = 0
    /\ initial_value = None
    /\ InitCommon

DummyNext ==
    \/ \E t \in Tasks : RunTask(t)
    \/ \E t \in Tasks : Yield(t)
    \/ \E t \in Tasks : DummyLocked(t)
    \/ \E t \in Tasks : DummyRelease(t)
    \/ \E t \in Tasks : DummyRawlink(t)
    \/ \E t \in Tasks : DummyUnlink(t)
    \/ \E t \in Tasks, timeout \in BOOLEAN : DummyWait(t, timeout)
    \/ \E t \in Tasks, blocking \in BOOLEAN, timeout \in BOOLEAN : DummyAcquire(t, blocking, timeout)
    \/ \E t \in Tasks : DummyEnter(t)
    \/ \E t \in Tasks : DummyExit(t)

DummySpec == DummyInit /\ [][DummyNext]_vars

\* ================================================================ claims
\* t is suspended in hub.switch() inside one of the calls
Suspended(t) == pc[t] \in Blocked

\* C1: the counter of a Semaphore is never negative, and a blocked acquire that
\* the drain resumes finds counter > 0: its `assert self.counter >= 0` after
\* the decrement never fails.
C1_CounterNeverNegative ==
    /\ counter >= 0
    /\ last.val # "AssertionError"

\* a blocked acquire was resumed by the drain and took the last unit
C1_Witness ==
    /\ last.op = "acquire" /\ last.via = "switch" /\ last.val = "True"
    /\ npc = "called"
    /\ counter = 0

\* C2: RLock mutual exclusion.  While a greenlet owns the lock the inner
\* semaphore is locked (so nobody else gets it); a non-blocking acquire by
\* another greenlet returns false and changes neither owner, depth nor the
\* inner counter; and the owner changes only by going through "unowned".
C2_MutualExclusion ==
    /\ [](counter \in 0..1)
    /\ [](owner # None => counter = 0 /\ count >= 1)
    /\ [][\A b \in Lockers :
            (RLAcquire(b, FALSE) /\ owner \notin {None, b})
            => /\ last' = Returned(b, "rl_acquire", "False", "call")
               /\ UNCHANGED <<owner, count, counter>>]_vars
    /\ [][owner # None => owner' \in {owner, None}]_vars
    /\ [][\A b \in Lockers :
            (pc[b] = "rl_acquire" /\ pc'[b] = "out" /\ last'.val = "True")
            => owner = None /\ counter = 1 /\ owner' = b]_vars

\* a non-blocking acquire by a greenlet that is not the owner has just failed
C2_Witness ==
    /\ last.op = "rl_acquire" /\ last.val = "False"
    /\ owner \notin {None, last.task}
    /\ count >= 1

\* C3: release() runs no waiter callback: a release step changes only the
\* counter (visible at once) and the notifier; while a greenlet runs, no other
\* greenlet leaves its suspended call; a suspended call is resumed normally
\* only by the drain, which only the hub runs.
C3_ReleaseDefersWakeups ==
    [][/\ \A t \in Tasks :
            Release(t) =>
              /\ UNCHANGED <<links, pc, timer, current, npc, idx>>
              /\ last'.val = "None" => counter' = counter + 1
              /\ last'.val # "None" => counter' = counter
       /\ \A t \in Tasks :
            (Suspended(t) /\ ~Suspended(t)') => current = Hub
       /\ \A t \in Tasks :
            (Suspended(t) /\ ~Suspended(t)' /\ last'.via = "switch")
            => npc = "loop" /\ npc' = "called"]_vars

\* a release was made with a greenlet suspended and the drain not yet run
C3_Witness ==
    /\ last.op = "release" /\ last.val = "None"
    /\ current = last.task
    /\ counter > 0
    /\ links # <<>>
    /\ notifier_active
    /\ npc = "idle"

\* C4: every exit from a blocking acquire or wait unregisters the greenlet:
\* the entries of _links are exactly the greenlets suspended in acquire or
\* wait, once each, and the drain never switches into a greenlet that has
\* left its call.
C4_LinksAreSuspended ==
    /\ \A i \in 1..Len(links) : pc[links[i]] \in {"acquire", "wait"}
    /\ \A i, j \in 1..Len(links) : links[i] = links[j] => i = j
    /\ \A t \in Tasks : pc[t] = "out" => ~InList(links, t)
    /\ last.op # "stale"

\* a drain runs over waiters after a call was left by an exception
C4_Witness ==
    /\ last.via = "throw"
    /\ pc[last.task] = "out"
    /\ npc = "loop"
    /\ links # <<>>
    /\ counter > 0

\* C5: a suspended acquire with a timeout ends by exactly one of the drain's
\* switch and its own timer.  A Timeout is armed only while its greenlet is
\* suspended, so after a normal resume it cannot fire; when the timer fires
\* the acquire returns False, the counter is unchanged and the greenlet is
\* out of _links, so no later drain switches into it.
C5_ResumeXorTimeout ==
    /\ [](\A t \in Tasks : timer[t] => pc[t] \in {"acquire", "wait"})
    /\ [](\A t \in Tasks : pc[t] = "out" => ~InList(links, t))
    /\ [][\A t \in Tasks :
            (TimerFire(t) /\ pc[t] = "acquire")
            => /\ last' = Returned(t, "acquire", "False", "throw")
               /\ counter' = counter
               /\ pc'[t] = "out"
               /\ ~timer'[t]
               /\ ~InList(links', t)]_vars
    /\ [][\A t \in Tasks :
            (pc[t] = "acquire" /\ timer[t] /\ pc'[t] = "out" /\ last'.via = "switch")
            => /\ last' = Returned(t, "acquire", "True", "switch")
               /\ counter' = counter - 1
               /\ ~timer'[t]]_vars

\* an acquire with a timeout timed out while a drain was pending
C5_Witness ==
    /\ last.op = "acquire" /\ last.val = "False" /\ last.via = "throw"
    /\ notifier_active
    /\ counter > 0

\* C6: RLock liveness under a fair hub.  A greenlet suspended in a blocking
\* RLock.acquire while the lock is fully released (unowned, inner counter > 0)
\* eventually gets the lock (owner = itself, depth 1, returns true), unless
\* another greenlet takes the inner semaphore ahead of it or an exception is
\* thrown into its acquire.
C6_BlockedAcquirerGetsLock ==
    \A b \in Lockers :
        (pc[b] = "rl_acquire" /\ owner = None /\ counter > 0)
        ~> \/ /\ owner = b /\ count = 1 /\ pc[b] = "out"
              /\ last = Returned(b, "rl_acquire", "True", "switch")
           \/ pc[b] = "rl_acquire" /\ counter = 0
           \/ pc[b] = "out" /\ last.task = b /\ last.via = "throw"

\* a suspended RLock.acquire was resumed by the drain and owns the lock
C6_Witness ==
    /\ last.op = "rl_acquire" /\ last.via = "switch" /\ last.val = "True"
    /\ owner = last.task
    /\ count = 1
    /\ npc = "called"

\* C7: RLock reentrancy.  An acquire by the owner only increments the depth;
\* a release by the owner at depth > 1 only decrements it, leaving the inner
\* semaphore locked and is_owned() true; the release at depth 1 clears the
\* owner and releases the inner semaphore; and no other greenlet becomes the
\* owner while the lock is owned.
C7_Reentrancy ==
    /\ [][\A t \in Lockers : \A blocking \in BOOLEAN :
            (RLAcquire(t, blocking) /\ owner = t)
            => /\ count' = count + 1
               /\ is_owned(t)'
               /\ last' = Returned(t, "rl_acquire", "True", "call")
               /\ UNCHANGED <<counter, links, notifier_active, pc>>]_vars
    /\ [][\A t \in Lockers :
            (RLRelease(t) /\ owner = t /\ count > 1)
            => /\ count' = count - 1
               /\ is_owned(t)'
               /\ counter = 0
               /\ UNCHANGED <<counter, links, notifier_active>>]_vars
    /\ [][\A t \in Lockers :
            (RLRelease(t) /\ owner = t /\ count = 1)
            => /\ count' = 0
               /\ owner' = None
               /\ counter' = counter + 1]_vars
    /\ [][\A t \in Lockers : owner \notin {None, t} => ~is_owned(t)']_vars
    /\ [][(owner # None /\ owner' # owner)
            => \/ RLRelease(owner) /\ count = 1
               \/ RLSave(owner)]_vars

\* the owner released at depth MaxDepth and still owns the lock
C7_Witness ==
    /\ last.op = "rl_release" /\ last.val = "None"
    /\ owner = last.task
    /\ count = MaxDepth - 1
    /\ count >= 1
    /\ counter = 0

\* C8: a BoundedSemaphore(N) keeps 0 <= counter <= N; a release() at
\* counter >= N raises ValueError and changes neither the counter, _links nor
\* the notifier; a release() below N succeeds and adds exactly one, and a
\* successful acquire takes exactly one, so N releases after N acquires all
\* succeed and bring the counter back to N.
C8_BoundedCounter ==
    /\ [](cls = "BoundedSemaphore" => counter >= 0 /\ counter <= initial_value)
    /\ [][cls = "BoundedSemaphore" =>
            \A t \in Tasks :
              /\ (Release(t) /\ counter >= initial_value)
                 => /\ last' = Returned(t, "release", "ValueError", "call")
                    /\ UNCHANGED <<counter, links, notifier_active, dirty>>
              /\ (Release(t) /\ counter < initial_value)
                 => /\ last' = Returned(t, "release", "None", "call")
                    /\ counter' = counter + 1
              /\ \A blocking, timeout \in BOOLEAN :
                   (Acquire(t, blocking, timeout) /\ counter > 0)
                   => /\ last' = Returned(t, "acquire", "True", "call")
                      /\ counter' = counter - 1
              /\ (pc[t] = "acquire" /\ pc'[t] = "out" /\ last'.via = "switch")
                 => counter' = counter - 1]_vars

\* a BoundedSemaphore(MaxValue) was acquired down to 0 by suspended-then-resumed
\* and direct acquires and a release has just brought it back to its bound
C8_Witness ==
    /\ cls = "BoundedSemaphore"
    /\ initial_value = MaxValue
    /\ initial_value >= 1
    /\ last.op = "release" /\ last.val = "None"
    /\ counter = initial_value

\* C9: RLock.release() by a greenlet that is not the owner (the lock owned
\* by another greenlet, or unowned) raises RuntimeError and changes neither
\* owner, depth, nor the inner semaphore's counter, _links and notifier.
C9_ReleaseByNonOwner ==
    [][\A t \in Lockers :
         (RLRelease(t) /\ owner # t)
         => /\ last' = Returned(t, "rl_release", "RuntimeError", "call")
            /\ UNCHANGED <<owner, count, counter, links, notifier_active, dirty>>]_vars

\* a release by a non-owner failed while another greenlet owns the lock
C9_Witness ==
    /\ last.op = "rl_release" /\ last.val = "RuntimeError"
    /\ owner \notin {None, last.task}
    /\ links # <<>>

\* C10: _release_save by the owner at depth d >= 1 returns (d, owner), sets
\* depth 0 and owner None and releases _block once; _acquire_restore with that
\* tuple suspends while _block is locked and, once it has _block, sets
\* exactly depth d and the saved owner.
C10_SaveRestore ==
    /\ [](\A t \in Lockers : saved[t] # NoSave => saved[t][1] >= 1 /\ saved[t][2] = t)
    /\ [][\A t \in Lockers :
            RLSave(t)
            => /\ owner = t /\ count >= 1 /\ counter = 0
               /\ saved'[t] = <<count, owner>>
               /\ count' = 0 /\ owner' = None
               /\ counter' = 1]_vars
    /\ [][\A t \in Lockers :
            (RLRestore(t) /\ counter = 0)
            => /\ pc'[t] = "rl_restore"
               /\ current' = Hub
               /\ UNCHANGED <<owner, count, counter, saved>>]_vars
    /\ [][\A t \in Lockers :
            (saved[t] # NoSave /\ saved'[t] = NoSave /\ last'.via # "throw")
            => /\ last'.task = t /\ last'.op = "rl_restore" /\ last'.val = "None"
               /\ counter = 1 /\ counter' = 0
               /\ count' = saved[t][1]
               /\ owner' = saved[t][2]]_vars

\* a suspended _acquire_restore got _block back and reinstated a depth > 1
C10_Witness ==
    /\ last.op = "rl_restore" /\ last.via = "switch" /\ last.val = "None"
    /\ owner = last.task
    /\ count >= 2
    /\ counter = 0

\* C11: a DummySemaphore can stand in for a Semaphore: no call suspends the
\* caller or raises, locked() is always False, and every acquire() returns
\* the True that a successful Semaphore.acquire() returns.
C11_DummyActsAsSemaphore ==
    /\ \A t \in Tasks : ~Suspended(t)
    /\ last.val \notin {"raised", "ValueError", "RuntimeError", "AssertionError"}
    /\ last.op = "locked" => last.val = "False"
    /\ last.op = "acquire" => last.val = "True"

\* a greenlet's acquire() on the DummySemaphore has returned
C11_Witness ==
    /\ cls = "DummySemaphore"
    /\ last.op = "acquire"
    /\ last.task \in Tasks
    /\ last.val = "None"

\* C12: on a new Semaphore(value) every acquire() made while the counter is
\* positive returns True at once, takes exactly one unit and neither suspends
\* the caller, registers a waiter nor schedules the notifier, so exactly value
\* acquires in a row succeed; a non-blocking acquire() at counter 0 (the next
\* one) returns False and leaves the counter at 0 and the links as they were.
\* With no release() there is never a notifier run, and a greenlet is
\* registered only once the counter is 0.
C12_FreshAcquires ==
    /\ [](npc = "idle" /\ ~notifier_active /\ (links # <<>> => counter = 0))
    /\ [][\A t \in Tasks, blocking \in BOOLEAN, timeout \in BOOLEAN :
            Acquire(t, blocking, timeout) =>
                IF counter > 0
                THEN /\ last' = Returned(t, "acquire", "True", "call")
                     /\ counter' = counter - 1
                     /\ UNCHANGED <<links, dirty, notifier_active, npc, pc, timer, current>>
                ELSE ~blocking =>
                     /\ last' = Returned(t, "acquire", "False", "call")
                     /\ counter = 0
                     /\ UNCHANGED <<semvars, npc, pc, timer, current>>]_vars

\* the acquire() after the last successful one, non-blocking: False at counter 0
C12_Witness ==
    /\ cls = "Semaphore"
    /\ counter = 0
    /\ links = <<>>
    /\ \E t \in Tasks : last = Returned(t, "acquire", "False", "call")

\* C13: when callbacks change the links during _notify_links (rawlink, unlink,
\* a greenlet unlinking its switch on resumption), one execution of
\* _notify_links, restarts included, calls no link twice that stayed
\* registered all along, and passes over no registered link on its way
\* through the list; for greenlets' switches and other callbacks alike.
C13_EachLinkOncePerDrain ==
    /\ \A i, j \in 1..Len(drain.woken) :
           i < j /\ drain.woken[i][1] = drain.woken[j][1]
               => drain.woken[i][1] \in drain.unlinked
    /\ npc = "loop" /\ ~dirty =>
           \A k \in 1..idx : k <= Len(links) =>
               \E i \in 1..Len(drain.woken) : drain.woken[i][1] = links[k]

\* a callback that was never unlinked has been called, and the loop restarted
C13_Witness ==
    /\ npc = "loop"
    /\ idx = 0
    /\ \E i \in 1..Len(drain.woken) :
           /\ drain.woken[i][1] \in Callbacks
           /\ drain.woken[i][1] \notin drain.unlinked
           /\ InList(links, drain.woken[i][1])

\* the links called so far by the running _notify_links that `call` registered
NumWoken(call) ==
    Cardinality({i \in 1..Len(drain.woken) : drain.woken[i][2] = call})

\* C14: in one execution of _notify_links during which release() is not
\* called, the number of waiters woken, whether suspended in acquire() or in
\* wait(), is at most the counter at its start; and _notify_links never calls
\* a link while the counter is 0 or less.
C14_WokenAtMostCounter ==
    /\ [](npc # "idle" /\ ~drain.released => Len(drain.woken) <= drain.start)
    /\ [][NotifyIter /\ npc' = "called" => counter > 0]_vars

\* C14 (amended): in one execution of _notify_links during which release() is
\* not called, the number of greenlets woken out of acquire() is at most the
\* counter at its start, each of them taking one unit; greenlets woken out of
\* wait() take none and are not limited by the counter.  _notify_links never
\* calls a link while the counter is 0 or less.
C14_AcquirersWokenAtMostCounter ==
    /\ [](npc # "idle" /\ ~drain.released =>
              NumWoken("acquire") <= drain.start - counter)
    /\ [][NotifyIter /\ npc' = "called" => counter > 0]_vars

\* more greenlets woken than the counter at the start, one out of acquire()
C14_Witness ==
    /\ npc = "called"
    /\ ~drain.released
    /\ Len(drain.woken) > drain.start
    /\ NumWoken("acquire") = 1
    /\ NumWoken("wait") >= 1

\* C15: the notifier is one callback that is pending or not: a release() made
\* while it is pending adds one to the counter and schedules nothing more, so
\* the releases made before the hub runs it are served by one execution of
\* _notify_links; that execution returns only when the counter is used up or
\* no greenlet is left registered, so it wakes as many suspended acquirers as
\* the counter built up by those releases allows.
C15_ReleasesCoalesce ==
    /\ [][\A t \in Tasks :
            Release(t) /\ notifier_active =>
                /\ notifier_active'
                /\ counter' = counter + 1
                /\ UNCHANGED <<npc, links, pc>>]_vars
    /\ [][npc # "idle" /\ npc' = "idle" => counter = 0 \/ links = <<>>]_vars

\* two releases before the notifier ran; its one execution has woken two
\* acquirers
C15_Witness ==
    /\ npc = "called"
    /\ drain.start = 2
    /\ ~drain.released
    /\ NumWoken("acquire") = 2
    /\ ~notifier_active

\* C16: greenlets are woken in the order they registered: whenever
\* _notify_links switches into a greenlet suspended in acquire() or wait(), no
\* greenlet stands before it in _links (rawlink appends, so those are the ones
\* that registered earlier); after restarts and timeouts as well.
C16_WokenInInsertionOrder ==
    [][NotifyIter /\ npc' = "called" =>
          LET link == drain'.woken[Len(drain'.woken)][1]
          IN  link \in Tasks =>
                  \A k \in 1..Len(links) :
                      links[k] = link => \A j \in 1..(k - 1) : links[j] \notin Tasks]_vars

\* one execution of _notify_links has woken the first registered greenlet,
\* restarted, and has just woken the one registered after it
C16_Witness ==
    /\ npc = "called"
    /\ Len(drain.woken) = 2
    /\ drain.woken[1][1] # drain.woken[2][1]
    /\ current = drain.woken[2][1]
    /\ last.via = "switch"
    /\ last.task = current

\* C17: an RLock's depth is 0 exactly when it has no owner, after any sequence
\* of acquire, release, _release_save and _acquire_restore calls by any
\* greenlets (the tuples restored being those that _release_save returned).
C17_DepthZeroIffUnowned ==
    /\ count >= 0
    /\ count = 0 <=> owner = None

\* a greenlet that does not own the lock has saved its state and restored it:
\* the lock is owned again by the greenlet it was taken from, at its depth
C17_Witness ==
    /\ last.op = "rl_restore"
    /\ last.task \in Lockers
    /\ owner \in Lockers \ {last.task}
    /\ count = MaxDepth

\* C18: a callback registered with rawlink() is called when the counter is
\* positive: once rawlink(c) has returned with the counter above 0, c is called
\* by _notify_links sooner or later unless it is unlinked or the counter goes
\* back to 0 (or the execution of _notify_links is not followed any further).
C18_CallbackCalled ==
    \A c \in Callbacks :
        (/\ last.op = "rawlink"
         /\ last.val = "None"
         /\ Len(links) > 0
         /\ links[Len(links)] = c
         /\ counter > 0)
        ~> (\/ last.task = c
            \/ ~InList(links, c)
            \/ counter <= 0
            \/ Len(drain.woken) >= MaxCalls)

\* rawlink(c) has returned with the counter above 0 and the greenlet is back in
\* the hub: c is registered and the notifier is not scheduled
C18_Witness ==
    /\ last.op = "rawlink"
    /\ last.val = "None"
    /\ links # <<>>
    /\ links[Len(links)] \in Callbacks
    /\ counter > 0
    /\ current = Hub
    /\ npc = "idle"
    /\ ~notifier_active

\* C19: no wake-up is lost: whenever the hub has control outside
\* _notify_links (no greenlet runs, no notifier run is under way), the
\* counter is positive and a greenlet is suspended in acquire() or wait(),
\* the notifier is scheduled; also after releases and acquires made by a
\* greenlet that ran inside _notify_links.
C19_NoLostWakeup ==
    (/\ current = Hub
     /\ npc = "idle"
     /\ counter > 0
     /\ \E t \in Tasks : pc[t] \in {"acquire", "wait"})
    => notifier_active

\* a greenlet is suspended, the counter is positive after a release() and the
\* hub is about to run the notifier
C19_Witness ==
    /\ current = Hub
    /\ npc = "idle"
    /\ counter > 0
    /\ \E t \in Tasks : pc[t] = "acquire"
    /\ \E t \in Tasks : pc[t] = "wait"
    /\ last.op = "release"
    /\ notifier_active

\* C20: every execution of _notify_links returns, restarts included, when the
\* links are switches of greenlets suspended in acquire() or wait(), whatever
\* release(), acquire() and wait() calls the resumed greenlets make before
\* they switch back to the hub: an execution wakes each greenlet at most once
\* (a greenlet suspends again only at counter 0, where the execution returns).
C20_DrainTerminates ==
    /\ [](\A i, j \in 1..Len(drain.woken) :
              drain.woken[i][1] = drain.woken[j][1] => i = j)
    /\ (npc # "idle") ~> (npc = "idle")

\* _notify_links is about to return after a restart: a resumed greenlet has
\* released, taken the semaphore again and suspended in acquire()
C20_Witness ==
    /\ npc = "loop"
    /\ idx = 0
    /\ drain.released
    /\ Len(drain.woken) >= 1
    /\ InList(links, drain.woken[1][1])
    /\ counter = 0

====
